---- MODULE Spec2Model ----
(***************************************************************************)
(* CarbonShift (optibot): the trip-submission / balance-reconciliation     *)
(* flow and the redemption flow of client/src/pages/home.tsx (the revision *)
(* with on-chain minting, lines 533-1195 of the file), together with the   *)
(* Ledger (the GTN token contract) and the server's POST /api/trips.       *)
(*                                                                         *)
(* Home is a React function component.  Its state cells (account, balance, *)
(* loading, redeeming, minting, provider) are the variables of the same    *)
(* name.  An event handler is a closure created by a render: it reads the  *)
(* values the state cells had at that render.  `view` holds those values.  *)
(* A state update made inside a click handler is rendered before the next  *)
(* event is dispatched (the handler's action ends with view' = the new     *)
(* state); a state update made in the continuation of an await is rendered *)
(* later, by the separate action Render.  An updater function passed to a  *)
(* setter receives the current value of the state cell, not the view.      *)
(*                                                                         *)
(* JavaScript runs a handler to its first await without interruption, so   *)
(* every action is the code between two awaits.                            *)
(*                                                                         *)
(* Spec is the client flow; its trips are stored through DatabaseStorage,  *)
(* the export of storage.ts 1-132.  SpecPolicy applies calculateTokens to  *)
(* the trip form.  SpecServer is the routes of server/routes.ts over       *)
(* either storage class of server/storage.ts, with a working storage.      *)
(* SpecFaults is the client flow, or else the routes, with every failure   *)
(* of a collaborator: database calls that reject, bodies without address.  *)
(***************************************************************************)
EXTENDS Integers, Sequences, FiniteSets, Bags, TLC

\* ---------------------------------------------- bounds
\* Number of submitTrip invocations in a run that reach the mint.
MaxCalls == 2
CallIds == 1..MaxCalls
\* Largest distance (km) the reward is computed for.
MaxDistance == 40
\* Number of requests the server handles at the same time.
MaxReqs == 2
\* Number of trips the storage holds in a run of the server.
MaxTrips == 3

\* ---------------------------------------------- constants
\* useState<string | null>(null)
NoAccount == "null"
NoProvider == "null"
\* The address signer.getAddress() returns (mixed-case checksum form).
WalletAddress == "0xAbC"
BrowserProvider == "provider"

\* REWARDS[i].cost
RewardCost1 == 50
RewardCost2 == 30
RewardCost3 == 75
RewardCost4 == 40
REWARDS == <<RewardCost1, RewardCost2, RewardCost3, RewardCost4>>

\* The token has 18 decimals: one GTN is 10^18 base units.  An amount of
\* base units is kept as [whole, frac] = whole * 10^18 + frac,
\* 0 <= frac < 10^18.
Wei(w, f) == [whole |-> w, frac |-> f]

\* parseUnits(amount.toString(), 18)
parseUnits(amount) == Wei(amount, 0)

\* formatUnits(balance, 18): the decimal string "<whole>.<frac>", kept as the
\* pair of its integer part and its fraction digits.
formatUnits(wei) == <<wei.whole, wei.frac>>

\* parseInt(formattedBalance): the digits before the decimal point.
parseInt(str) == str[1]

\* Ledger-side addition of a minted amount (frac of a minted amount is 0).
AddWei(a, b) == Wei(a.whole + b.whole, a.frac + b.frac)

\* The balance the account holds on the Ledger before the session: dust below
\* one token (the mock provider's 0x7d = 125 base units).
MockDust == 125
InitLedgers == {Wei(0, MockDust)}

\* ---------------------------------------------- RewardPolicy
Modes == {"Walking", "Cycling", "Public Transport"}

\* rates[mode], in tenths of a token per km
RateTenths(mode) ==
    CASE mode = "Walking" -> 10
      [] mode = "Cycling" -> 5
      [] mode = "Public Transport" -> 2

\* Mutant: the product is rounded up.
calculateTokens_Ceil(mode, distance) ==
    (RateTenths(mode) * distance + 9) \div 10

\* Math.floor(undefined * distance) is NaN, and NaN > 0 is false.  NaN is
\* kept as a value below 0, which no floor of a product of the table takes.
NaN == -1

\* Math.floor(rates[mode] * distance); rates[mode] is undefined for a mode
\* that is not a key of the table.
calculateTokens(mode, distance) ==
    IF mode \in Modes THEN (RateTenths(mode) * distance) \div 10 ELSE NaN

\* A mode (tripForm.mode is a string) that is not a key of the rate table.
UnknownMode == "Driving"

\* What the trip form holds when submitTrip is called: a trip that earns the
\* cost of the first reward, a trip worth no token, an invalid distance, a
\* mode outside the rate table.
SubmitInputs ==
    { <<"Walking", RewardCost1>>, <<"Public Transport", 1>>, <<"Walking", 0>>,
      <<UnknownMode, RewardCost1>> }

\* The rewards the user clicks "Redeem" on.
RedeemInputs == {1}

\* ---------------------------------------------- state
VARIABLES
    account,     \* useState account
    provider,    \* useState provider
    balance,     \* useState balance: the cached Balance
    loading,     \* useState loading
    redeeming,   \* useState redeeming
    minting,     \* useState minting
    view,        \* the state values captured by the handlers of the last render
    conn,        \* connectWallet's position and its balance read
    calls,       \* calls[p]: the p-th submitTrip call that reached the mint
    returned,    \* the last submitTrip call that returned without awaiting
    ledger,      \* the Ledger's balance of WalletAddress, in base units
    txs,         \* txs[p]: the mint transaction of call p on the Ledger
    users,       \* storage: the accounts
    trips,       \* storage: the trips, in creation order
    lastRedeem,  \* the latest redeemReward invocation
    storage,     \* the class of the exported `storage` object
    reqs,        \* the bag of the requests the server is handling
    response,    \* the response the server has sent in the last step
    now          \* the clock that createdAt is read from

vars == <<account, provider, balance, loading, redeeming, minting, view, conn,
          calls, returned, ledger, txs, users, trips, lastRedeem,
          storage, reqs, response, now>>

client == <<account, provider, balance, loading, redeeming, minting>>

\* What the routes of the server own besides the stored users and trips.
server == <<storage, reqs, response, now>>

\* The values a render hands to the handlers it creates.
Snapshot(acc, prov, bal, ld, rd, mt) ==
    [account |-> acc, provider |-> prov, balance |-> bal,
     loading |-> ld, redeeming |-> rd, minting |-> mt]

NoRead == [status |-> "none", value |-> Wei(0, 0)]
IssuedRead == [status |-> "issued", value |-> Wei(0, 0)]

\* No contract.mint call made yet.
NoMint == [to |-> NoAccount, amount |-> Wei(0, 0)]

IdleCall ==
    [pc |-> "idle", account |-> NoAccount, mode |-> "Walking", distance |-> 0,
     tokensEarned |-> 0, outcome |-> "none", mint |-> NoMint, mintOk |-> FALSE,
     read |-> NoRead, persist |-> "none"]

\* No redeemReward invocation yet; total is the sum of the debits so far.
NoRedeem ==
    [cost |-> 0, before |-> 0, after |-> 0, outcome |-> "none", total |-> 0]

\* A request whose handler is about to call getUserByWalletAddress.
Request(route, walletAddress, valid) ==
    [route |-> route, walletAddress |-> walletAddress, valid |-> valid,
     pc |-> "lookup", user |-> 0]

\* No response is sent.
NoResponse ==
    [route |-> "none", walletAddress |-> "", status |-> 0, body |-> <<>>]

\* The storage classes of storage.ts; `storage` is an instance of one.
StorageClasses == {"DatabaseStorage", "MemStorage"}

NoReturn == [outcome |-> "none", mode |-> "Walking", distance |-> 0]

Init ==
    /\ account = NoAccount
    /\ provider = NoProvider
    /\ balance = 0
    /\ loading = FALSE
    /\ redeeming = FALSE
    /\ minting = FALSE
    /\ view = Snapshot(NoAccount, NoProvider, 0, FALSE, FALSE, FALSE)
    /\ conn = [pc |-> "idle", read |-> NoRead]
    /\ calls = [p \in CallIds |-> IdleCall]
    /\ returned = NoReturn
    /\ ledger \in InitLedgers
    /\ txs = [p \in CallIds |-> "none"]
    /\ users = {}
    /\ trips = <<>>
    /\ lastRedeem = NoRedeem
    /\ storage = "DatabaseStorage"
    /\ reqs = EmptyBag
    /\ response = NoResponse
    /\ now = 0

\* ---------------------------------------------- rendering
\* React re-renders Home after state updates made outside an event handler.
Render ==
    /\ view # Snapshot(account, provider, balance, loading, redeeming, minting)
    /\ view' = Snapshot(account, provider, balance, loading, redeeming, minting)
    /\ UNCHANGED <<client, conn, calls, returned, ledger, txs, users, trips,
                   lastRedeem>>
    /\ UNCHANGED server

\* ---------------------------------------------- fetchBalance
\* The Ledger answers a pending balanceOf with its balance at that moment.
ServeRead(read) == [status |-> "served", value |-> ledger]

\* Mutant: the tokens redeemed so far are taken off the balance that was read.
FetchedBalance_LessDebits(value) ==
    IF parseInt(formatUnits(value)) >= lastRedeem.total
    THEN parseInt(formatUnits(value)) - lastRedeem.total
    ELSE 0

\* fetchBalance's try branch: setBalance(parseInt(formatUnits(balance, 18)))
FetchedBalance(value) == parseInt(formatUnits(value))

\* ---------------------------------------------- connectWallet
\* The click on "Connect Wallet": setLoading(true), then the wallet requests.
ConnectWallet ==
    /\ view.account = NoAccount
    /\ ~view.loading
    /\ conn.pc = "idle"
    /\ loading' = TRUE
    /\ conn' = [conn EXCEPT !.pc = "connecting"]
    /\ view' = Snapshot(account, provider, balance, TRUE, redeeming, minting)
    /\ UNCHANGED <<account, provider, balance, redeeming, minting, calls,
                   returned, ledger, txs, users, trips, lastRedeem>>
    /\ UNCHANGED server

\* A wallet request fails: catch, finally setLoading(false).
ConnectFail ==
    /\ conn.pc = "connecting"
    /\ loading' = FALSE
    /\ conn' = [conn EXCEPT !.pc = "idle"]
    /\ UNCHANGED <<account, provider, balance, redeeming, minting, view, calls,
                   returned, ledger, txs, users, trips, lastRedeem>>
    /\ UNCHANGED server

\* Mutant: the account is set and the provider is not.
ConnectOk_NoProvider ==
    /\ conn.pc = "connecting"
    /\ account' = WalletAddress
    /\ conn' = [pc |-> "fetch", read |-> IssuedRead]
    /\ UNCHANGED <<provider, balance, loading, redeeming, minting, view,
                   calls, returned, ledger, txs, users, trips, lastRedeem>>
    /\ UNCHANGED server

\* setAccount(address); setProvider(provider); fetchBalance is called.
ConnectOk ==
    /\ conn.pc = "connecting"
    /\ account' = WalletAddress
    /\ provider' = BrowserProvider
    /\ conn' = [pc |-> "fetch", read |-> IssuedRead]
    /\ UNCHANGED <<balance, loading, redeeming, minting, view, calls, returned,
                   ledger, txs, users, trips, lastRedeem>>
    /\ UNCHANGED server

ConnectBalanceServed ==
    /\ conn.pc = "fetch"
    /\ conn.read.status = "issued"
    /\ conn' = [conn EXCEPT !.read = ServeRead(@)]
    /\ UNCHANGED <<client, view, calls, returned, ledger, txs, users, trips,
                   lastRedeem>>
    /\ UNCHANGED server

\* fetchBalance resolves; finally setLoading(false).
ConnectFetchOk ==
    /\ conn.pc = "fetch"
    /\ conn.read.status = "served"
    /\ balance' = FetchedBalance(conn.read.value)
    /\ loading' = FALSE
    /\ conn' = [pc |-> "done", read |-> NoRead]
    /\ UNCHANGED <<account, provider, redeeming, minting, view, calls, returned,
                   ledger, txs, users, trips, lastRedeem>>
    /\ UNCHANGED server

\* balanceOf fails: fetchBalance keeps the previous balance.
ConnectFetchFail ==
    /\ conn.pc = "fetch"
    /\ loading' = FALSE
    /\ conn' = [pc |-> "done", read |-> NoRead]
    /\ UNCHANGED <<account, provider, balance, redeeming, minting, view, calls,
                   returned, ledger, txs, users, trips, lastRedeem>>
    /\ UNCHANGED server

\* ---------------------------------------------- submitTrip
\* Mutant: the re-entrancy guard is missing.
AlreadyMinting_NoGuard(v) == FALSE

\* if (minting) return
AlreadyMinting(v) == v.minting

\* !tripForm.distance || parseFloat(tripForm.distance) <= 0
InvalidDistance(distance) == distance <= 0

\* if (provider && tokensEarned > 0)
CanMint(v, tokensEarned) == v.provider # NoProvider /\ tokensEarned > 0

\* A call that returns without awaiting anything.
Returned(outcome, mode, distance) ==
    [outcome |-> outcome, mode |-> mode, distance |-> distance]

\* setMinting(true); mintTokens(provider, account, tokensEarned) is awaited.
Started(mode, distance) ==
    [IdleCall EXCEPT !.pc = "send", !.mode = mode, !.distance = distance,
                     !.tokensEarned = calculateTokens(mode, distance)]

\* The next unused call record.
FreeCall ==
    CHOOSE p \in CallIds :
        /\ calls[p].pc = "idle"
        /\ \A q \in CallIds : q < p => calls[q].pc # "idle"

\* submitTrip up to its first await.
SubmitTrip ==
    /\ \E inp \in SubmitInputs :
        LET mode == inp[1]
            distance == inp[2]
        IN  IF AlreadyMinting(view)
            THEN /\ returned' = Returned("AlreadyInProgress", mode, distance)
                 /\ UNCHANGED <<minting, view, calls>>
            ELSE IF InvalidDistance(distance)
            THEN /\ returned' = Returned("InvalidInput", mode, distance)
                 /\ UNCHANGED <<minting, view, calls>>
            ELSE IF view.account = NoAccount
            THEN /\ returned' = Returned("NotConnected", mode, distance)
                 /\ UNCHANGED <<minting, view, calls>>
            ELSE IF CanMint(view, calculateTokens(mode, distance))
            THEN /\ \E p \in CallIds : calls[p].pc = "idle"
                 /\ calls' = [calls EXCEPT
                      ![FreeCall] = [Started(mode, distance) EXCEPT
                                        !.account = view.account]]
                 /\ minting' = TRUE
                 /\ view' = Snapshot(account, provider, balance, loading,
                                     redeeming, TRUE)
                 /\ UNCHANGED returned
            ELSE \* setMinting(true); throw; catch; finally setMinting(false)
                 /\ returned' = Returned("Error", mode, distance)
                 /\ minting' = FALSE
                 /\ view' = Snapshot(account, provider, balance, loading,
                                     redeeming, FALSE)
                 /\ UNCHANGED calls
    /\ UNCHANGED <<account, provider, balance, loading, redeeming, conn,
                   ledger, txs, users, trips, lastRedeem>>
    /\ UNCHANGED server

\* Mutant: the failed mint still hands the trip to createTrip.mutate.
MintTokensFailed_Persists(c) ==
    [c EXCEPT !.pc = "done", !.outcome = "MintFailed", !.persist = "pending"]

\* Mutant: the failed mint still issues the balance re-read.
MintTokensFailed_Rereads(c) ==
    [c EXCEPT !.pc = "done", !.outcome = "MintFailed", !.read = IssuedRead]

\* mintTokens throws 'Token minting failed'; submitTrip's catch and finally.
MintTokensFailed(c) == [c EXCEPT !.pc = "done", !.outcome = "MintFailed"]

\* Mutant: the trip is handed to createTrip.mutate before the re-read.
MintConfirmed_PersistsFirst(c) ==
    [c EXCEPT !.pc = "fetch", !.mintOk = TRUE, !.read = IssuedRead,
              !.persist = "pending"]

\* mintTokens returns {success: true}; submitTrip calls fetchBalance.
MintConfirmed(c) ==
    [c EXCEPT !.pc = "fetch", !.mintOk = TRUE, !.read = IssuedRead]

\* import('ethers'), provider.getSigner() or contract.mint() rejects.
MintSendFail(p) ==
    /\ calls[p].pc = "send"
    /\ calls' = [calls EXCEPT ![p] = MintTokensFailed(@)]
    /\ minting' = FALSE
    /\ UNCHANGED <<account, provider, balance, loading, redeeming, view, conn,
                   returned, ledger, txs, users, trips, lastRedeem>>
    /\ UNCHANGED server

\* Mutant: the amount is passed to the contract without the 18 decimals.
MintArgs_Unscaled(address, amount) ==
    [to |-> address, amount |-> Wei(0, amount)]

\* mintTokens: tokenAmount = parseUnits(amount.toString(), 18);
\* contract.mint(address, tokenAmount)
MintArgs(address, amount) == [to |-> address, amount |-> parseUnits(amount)]

\* contract.mint(address, tokenAmount) resolves: the transaction is sent.
MintSendOk(p) ==
    /\ calls[p].pc = "send"
    /\ calls' = [calls EXCEPT
                    ![p].pc = "wait",
                    ![p].mint = MintArgs(calls[p].account,
                                         calls[p].tokensEarned)]
    /\ txs' = [txs EXCEPT ![p] = "pending"]
    /\ UNCHANGED <<client, view, conn, returned, ledger, users, trips,
                   lastRedeem>>
    /\ UNCHANGED server

\* The Ledger executes the mint: balance of the address grows by the amount.
TxMined(p) ==
    /\ txs[p] = "pending"
    /\ txs' = [txs EXCEPT ![p] = "mined"]
    /\ ledger' = IF calls[p].mint.to = WalletAddress
                 THEN AddWei(ledger, calls[p].mint.amount)
                 ELSE ledger
    /\ UNCHANGED <<client, view, conn, calls, returned, users, trips,
                   lastRedeem>>
    /\ UNCHANGED server

\* The Ledger rejects the mint: no change of balance.
TxReverted(p) ==
    /\ txs[p] = "pending"
    /\ txs' = [txs EXCEPT ![p] = "reverted"]
    /\ UNCHANGED <<client, view, conn, calls, returned, ledger, users, trips,
                   lastRedeem>>
    /\ UNCHANGED server

\* tx.wait() resolves with the receipt of the mined transaction.
MintWaitOk(p) ==
    /\ calls[p].pc = "wait"
    /\ txs[p] = "mined"
    /\ calls' = [calls EXCEPT ![p] = MintConfirmed(@)]
    /\ UNCHANGED <<client, view, conn, returned, ledger, txs, users, trips,
                   lastRedeem>>
    /\ UNCHANGED server

\* tx.wait() rejects: the transaction reverted, or the wait itself failed.
MintWaitFail(p) ==
    /\ calls[p].pc = "wait"
    /\ calls' = [calls EXCEPT ![p] = MintTokensFailed(@)]
    /\ minting' = FALSE
    /\ UNCHANGED <<account, provider, balance, loading, redeeming, view, conn,
                   returned, ledger, txs, users, trips, lastRedeem>>
    /\ UNCHANGED server

SubmitBalanceServed(p) ==
    /\ calls[p].pc = "fetch"
    /\ calls[p].read.status = "issued"
    /\ calls' = [calls EXCEPT ![p].read = ServeRead(@)]
    /\ UNCHANGED <<client, view, conn, returned, ledger, txs, users, trips,
                   lastRedeem>>
    /\ UNCHANGED server

\* After fetchBalance: createTrip.mutate(...), the success toast, finally
\* setMinting(false).
AfterFetch(c) ==
    [c EXCEPT !.pc = "done", !.read = NoRead, !.persist = "pending",
              !.outcome = "Success"]

\* fetchBalance sets the balance read from the Ledger, then the rest of the try.
SubmitFetchOk(p) ==
    /\ calls[p].pc = "fetch"
    /\ calls[p].read.status = "served"
    /\ balance' = FetchedBalance(calls[p].read.value)
    /\ calls' = [calls EXCEPT ![p] = AfterFetch(@)]
    /\ minting' = FALSE
    /\ UNCHANGED <<account, provider, loading, redeeming, view, conn, returned,
                   ledger, txs, users, trips, lastRedeem>>
    /\ UNCHANGED server

\* Mutant: the error of balanceOf leaves fetchBalance and ends the submit in
\* its catch, before createTrip.mutate.
SubmitFetchFail_Aborts(p) ==
    /\ calls[p].pc = "fetch"
    /\ calls' = [calls EXCEPT ![p].pc = "done", ![p].read = NoRead]
    /\ minting' = FALSE
    /\ UNCHANGED <<account, provider, balance, loading, redeeming, view, conn,
                   returned, ledger, txs, users, trips, lastRedeem>>
    /\ UNCHANGED server

\* balanceOf fails: fetchBalance swallows the error, the try goes on.
SubmitFetchFail(p) ==
    /\ calls[p].pc = "fetch"
    /\ calls' = [calls EXCEPT ![p] = AfterFetch(@)]
    /\ minting' = FALSE
    /\ UNCHANGED <<account, provider, balance, loading, redeeming, view, conn,
                   returned, ledger, txs, users, trips, lastRedeem>>
    /\ UNCHANGED server

\* What the toasts have told the user about a submit so far: the catch's
\* "Trip submission failed", onError's "Error: Failed to log trip", or the
\* success toasts "Tokens minted successfully!" and "Trip logged!".
Reported(c) ==
    CASE c.outcome = "MintFailed" -> "MintFailed"
      [] c.outcome = "Success" /\ c.persist = "error" -> "PersistFailed"
      [] c.outcome = "Success" /\ c.persist # "error" -> "Success"
      [] OTHER -> "none"

\* ---------------------------------------------- POST /api/trips
\* String.prototype.toLowerCase on the addresses of the model.
toLowerCase(a) ==
    CASE a \in {"0xAbC", "0xABC", "0xabc"} -> "0xabc"
      [] a \in {"0xDeF", "0xdef"} -> "0xdef"
      [] OTHER -> a

\* DatabaseStorage.getUserByWalletAddress: the rows whose wallet_address is
\* the lower-cased argument.
getUserByWalletAddress(us, walletAddress) ==
    {u \in us : u.walletAddress = toLowerCase(walletAddress)}

\* Mutant: wallet_address has no unique index, every insert adds a row.
createUser_NoIndex(us, walletAddress) ==
    us \cup {[id |-> Cardinality(us) + 1,
              walletAddress |-> toLowerCase(walletAddress)]}

\* DatabaseStorage.createUser: insert the lower-cased address; the unique
\* index on wallet_address makes the insert do nothing on a conflict.
createUser(us, walletAddress) ==
    IF \E u \in us : u.walletAddress = toLowerCase(walletAddress)
    THEN us
    ELSE us \cup {[id |-> Cardinality(us) + 1,
                   walletAddress |-> toLowerCase(walletAddress)]}

\* Mutant: MemStorage compares the addresses as they are.
MemGetUserByWalletAddress_Exact(us, walletAddress) ==
    {u \in us : u.walletAddress = walletAddress}

\* MemStorage.getUserByWalletAddress: both sides are lower-cased.
MemGetUserByWalletAddress(us, walletAddress) ==
    {u \in us : toLowerCase(u.walletAddress) = toLowerCase(walletAddress)}

\* MemStorage.createUser: the user is stored as given, under a new id.
MemCreateUser(us, walletAddress) ==
    us \cup {[id |-> Cardinality(us) + 1, walletAddress |-> walletAddress]}

\* Mutant: the optimistic increment,
\* setBalance(prev => prev + data.tokensEarned).
createTripOnSuccess_Increment(prev, tokensEarned) == prev + tokensEarned

\* createTrip's onSuccess: the balance is not touched.
createTripOnSuccess(prev, tokensEarned) == prev

\* The object submitTrip gives to createTrip.mutate: the body of the request.
TripData(c) ==
    [walletAddress |-> c.account, mode |-> c.mode, distance |-> c.distance,
     tokensEarned |-> c.tokensEarned]

\* The server finds or creates the user, validates and stores the trip, and
\* answers 200; the mutation's onSuccess runs.
PostTripsOk(p) ==
    /\ calls[p].persist = "pending"
    /\ users' = createUser(users, TripData(calls[p]).walletAddress)
    /\ LET body == TripData(calls[p])
           found == getUserByWalletAddress(users', body.walletAddress)
           user == CHOOSE u \in found : TRUE
       IN trips' = Append(trips,
              [userId |-> user.id, mode |-> body.mode,
               distance |-> body.distance,
               tokensEarned |-> body.tokensEarned, call |-> p])
    /\ calls' = [calls EXCEPT ![p].persist = "success"]
    /\ balance' = createTripOnSuccess(balance, calls[p].tokensEarned)
    /\ UNCHANGED <<account, provider, loading, redeeming, minting, view, conn,
                   returned, ledger, txs, lastRedeem>>
    /\ UNCHANGED server

\* Mutant: a failed mutation is reported like a stored trip.
createTripOnError_Silent(c) == [c EXCEPT !.persist = "success"]

\* createTrip's onError: the toast "Error", "Failed to log trip"; nothing else.
createTripOnError(c) == [c EXCEPT !.persist = "error"]

\* The request or the storage fails (500, or no answer): onError runs.
PostTripsFail(p) ==
    /\ calls[p].persist = "pending"
    /\ users' \in {users, createUser(users, TripData(calls[p]).walletAddress)}
    /\ calls' = [calls EXCEPT ![p] = createTripOnError(@)]
    /\ UNCHANGED <<client, view, conn, returned, ledger, txs, trips,
                   lastRedeem>>
    /\ UNCHANGED server

\* ---------------------------------------------- redeemReward
\* Mutant: the debit is made without the check against the cost.
RedeemUpdater_NoCheck(prev, cost) == prev - cost

\* The updater given to setBalance inside flushSync.
RedeemUpdater(prev, cost) == IF prev >= cost THEN prev - cost ELSE prev

\* if (newBalance < oldBalance): the coupon toast, else "Insufficient balance".
RedeemOutcome(newBalance, oldBalance) ==
    IF newBalance < oldBalance THEN "Success" ELSE "InsufficientBalance"

\* {!account ? <welcome> : <dashboard>}: the Redeem buttons are rendered with
\* the dashboard only.
RedeemShown(v) == v.account # NoAccount

\* One invocation of redeemReward: the balance before and after it, its toast.
Redeemed(cost, before, after, outcome) ==
    [cost |-> cost, before |-> before, after |-> after, outcome |-> outcome,
     total |-> lastRedeem.total + (before - after)]

\* Mutant: the redeemed tokens are taken from the Ledger balance as well.
RedeemLedger_Burn(l, debit) == Wei(l.whole - debit, l.frac)

\* The Ledger after redeemReward: the function calls neither the contract
\* nor fetchBalance.
RedeemLedger(l, debit) == l

\* redeemReward(REWARDS[i]): synchronous from the click to setRedeeming(false).
redeemReward(i) ==
    /\ RedeemShown(view)
    /\ LET cost == REWARDS[i]
           oldBalance == view.balance
           newBalance == RedeemUpdater(balance, cost)
       IN  IF view.redeeming
           THEN /\ lastRedeem' = Redeemed(cost, balance, balance,
                                          "RedemptionInProgress")
                /\ UNCHANGED <<balance, redeeming, view, ledger>>
           ELSE /\ balance' = newBalance
                /\ redeeming' = FALSE
                /\ view' = Snapshot(account, provider, newBalance, loading,
                                    FALSE, minting)
                /\ lastRedeem' = Redeemed(cost, balance, newBalance,
                                          RedeemOutcome(newBalance, oldBalance))
                /\ ledger' = RedeemLedger(ledger, balance - newBalance)
    /\ UNCHANGED <<account, provider, loading, minting, conn, calls, returned,
                   txs, users, trips>>
    /\ UNCHANGED server

\* ---------------------------------------------- specification
\* A step of connectWallet, of submitTrip or of the trip request, or a render.
FlowStep ==
    \/ Render
    \/ ConnectWallet
    \/ ConnectFail
    \/ ConnectOk
    \/ ConnectBalanceServed
    \/ ConnectFetchOk
    \/ ConnectFetchFail
    \/ SubmitTrip
    \/ \E p \in CallIds : MintSendFail(p)
    \/ \E p \in CallIds : MintSendOk(p)
    \/ \E p \in CallIds : TxMined(p)
    \/ \E p \in CallIds : TxReverted(p)
    \/ \E p \in CallIds : MintWaitOk(p)
    \/ \E p \in CallIds : MintWaitFail(p)
    \/ \E p \in CallIds : SubmitBalanceServed(p)
    \/ \E p \in CallIds : SubmitFetchOk(p)
    \/ \E p \in CallIds : SubmitFetchFail(p)
    \/ \E p \in CallIds : PostTripsOk(p)
    \/ \E p \in CallIds : PostTripsFail(p)

Next ==
    \/ FlowStep
    \/ \E i \in RedeemInputs : redeemReward(i)

Spec == Init /\ [][Next]_vars

\* ---------------------------------------------- the reward of a trip form
\* The trip form holds any mode of the Select and any distance; the component
\* computes the reward of the form (submitTrip's tokensEarned, and the
\* "You'll earn ... GTN" preview).
PolicyInputs == Modes \X (1..MaxDistance)

InitPolicy ==
    /\ account = NoAccount
    /\ provider = NoProvider
    /\ balance = 0
    /\ loading = FALSE
    /\ redeeming = FALSE
    /\ minting = FALSE
    /\ view = Snapshot(NoAccount, NoProvider, 0, FALSE, FALSE, FALSE)
    /\ conn = [pc |-> "idle", read |-> NoRead]
    /\ calls = [p \in CallIds |-> IdleCall]
    /\ returned \in {Returned("none", inp[1], inp[2]) : inp \in PolicyInputs}
    /\ ledger \in InitLedgers
    /\ txs = [p \in CallIds |-> "none"]
    /\ users = {}
    /\ trips = <<>>
    /\ lastRedeem = NoRedeem
    /\ storage = "DatabaseStorage"
    /\ reqs = EmptyBag
    /\ response = NoResponse
    /\ now = 0

\* const tokensEarned = calculateTokens(tripForm.mode, distance)
ComputeTokens ==
    /\ calls[1].pc = "idle"
    /\ calls' = [calls EXCEPT
                    ![1] = Started(returned.mode, returned.distance)]
    /\ UNCHANGED <<client, view, conn, returned, ledger, txs, users, trips,
                   lastRedeem>>
    /\ UNCHANGED server

NextPolicy == ComputeTokens

SpecPolicy == InitPolicy /\ [][NextPolicy]_vars

TypeOK ==
    /\ balance \in Nat
    /\ minting \in BOOLEAN
    /\ redeeming \in BOOLEAN
    /\ minting => view.minting

\* ---------------------------------------------- the routes of the server
\* The routes of routes.ts over the storage of storage.ts.  A route handler
\* runs from one await to the next without interruption.  The awaits of
\* DatabaseStorage wait for the database, so the handlers of different
\* requests interleave between their storage calls.  The methods of
\* MemStorage resolve at once: a handler runs to its response before the
\* next request is taken up.

\* What the client flow owns.
flow == <<client, view, conn, calls, returned, ledger, txs, lastRedeem>>

\* The wallet addresses of the requests: one address in two letter cases,
\* and another address.
Addresses == {"0xAbC", "0xabc", "0xDeF"}

Routes == {"auth", "getTrips", "postTrips"}

\* Array.prototype.find, and the first row of a select: the oldest match.
First(found) == CHOOSE u \in found : \A v \in found : u.id <= v.id

\* storage.getUserByWalletAddress(walletAddress)
FindUser(us, walletAddress) ==
    IF storage = "DatabaseStorage"
    THEN getUserByWalletAddress(us, walletAddress)
    ELSE MemGetUserByWalletAddress(us, walletAddress)

\* The users after storage.createUser({ walletAddress }).
InsertUser(us, walletAddress) ==
    IF storage = "DatabaseStorage"
    THEN createUser(us, walletAddress)
    ELSE MemCreateUser(us, walletAddress)

\* The user storage.createUser returns: the inserted row, or after a
\* conflict the existing one (DatabaseStorage); the new user (MemStorage).
InsertedUser(us, walletAddress) ==
    IF storage = "DatabaseStorage"
    THEN First(getUserByWalletAddress(createUser(us, walletAddress),
                                      walletAddress))
    ELSE [id |-> Cardinality(us) + 1, walletAddress |-> walletAddress]

\* Mutant: the new trip takes the place of the latest stored one.
createTrip_Overwrite(ts, userId) ==
    IF ts = <<>>
    THEN <<[id |-> 1, userId |-> userId, createdAt |-> now]>>
    ELSE [ts EXCEPT ![Len(ts)] =
            [id |-> Len(ts), userId |-> userId, createdAt |-> now]]

\* storage.createTrip(tripData): a new row with createdAt = now.
createTrip(ts, userId) ==
    Append(ts, [id |-> Len(ts) + 1, userId |-> userId, createdAt |-> now])

IsDesc(seq) ==
    \A i, j \in DOMAIN seq : i < j => seq[i].createdAt >= seq[j].createdAt

\* DatabaseStorage.getTripsByUserId: where user_id = userId order by
\* created_at desc; rows of equal created_at come in any order.
getTripsByUserId(ts, userId) ==
    LET rows == {ts[i] : i \in {k \in DOMAIN ts : ts[k].userId = userId}}
    IN  {seq \in [1..Cardinality(rows) -> rows] :
            /\ \A i, j \in DOMAIN seq : i # j => seq[i] # seq[j]
            /\ IsDesc(seq)}

\* One step of the stable Array.prototype.sort with the comparator
\* (a, b) => b.createdAt - a.createdAt: t goes behind the elements that are
\* not older than it.
RECURSIVE InsertDesc(_, _)
InsertDesc(sorted, t) ==
    IF sorted = <<>> THEN <<t>>
    ELSE IF Head(sorted).createdAt >= t.createdAt
         THEN <<Head(sorted)>> \o InsertDesc(Tail(sorted), t)
         ELSE <<t>> \o sorted

RECURSIVE SortDesc(_)
SortDesc(seq) ==
    IF seq = <<>> THEN <<>>
    ELSE InsertDesc(SortDesc(SubSeq(seq, 1, Len(seq) - 1)), seq[Len(seq)])

\* Mutant: the trips of the user are returned in the order of the Map.
MemGetTripsByUserId_Unsorted(ts, userId) ==
    SelectSeq(ts, LAMBDA t : t.userId = userId)

\* MemStorage.getTripsByUserId: filter, then sort.
MemGetTripsByUserId(ts, userId) ==
    SortDesc(SelectSeq(ts, LAMBDA t : t.userId = userId))

\* The results storage.getTripsByUserId(userId) may give.
ListTrips(ts, userId) ==
    IF storage = "DatabaseStorage"
    THEN getTripsByUserId(ts, userId)
    ELSE {MemGetTripsByUserId(ts, userId)}

\* The trips stored and those that requests under way may still store.
TripsClaimed ==
    LET posts == {q \in BagToSet(reqs) : q.route = "postTrips"}
    IN  Len(trips) + BagCardinality([q \in posts |-> reqs[q]])

\* res.status(status).json(body)
Respond(req, status, body) ==
    [route |-> req.route, walletAddress |-> req.walletAddress,
     status |-> status, body |-> body]

InitServer ==
    /\ account = NoAccount
    /\ provider = NoProvider
    /\ balance = 0
    /\ loading = FALSE
    /\ redeeming = FALSE
    /\ minting = FALSE
    /\ view = Snapshot(NoAccount, NoProvider, 0, FALSE, FALSE, FALSE)
    /\ conn = [pc |-> "idle", read |-> NoRead]
    /\ calls = [p \in CallIds |-> IdleCall]
    /\ returned = NoReturn
    /\ ledger \in InitLedgers
    /\ txs = [p \in CallIds |-> "none"]
    /\ users = {}
    /\ trips = <<>>
    /\ lastRedeem = NoRedeem
    /\ storage \in StorageClasses
    /\ reqs = EmptyBag
    /\ response = NoResponse
    /\ now = 0

\* The clock moves on (it matters only after a trip was stamped with it).
Tick ==
    /\ \E i \in DOMAIN trips : trips[i].createdAt = now
    /\ now' = now + 1
    /\ response' = NoResponse
    /\ UNCHANGED <<flow, users, trips, storage, reqs>>

\* A request arrives; its handler runs to its first storage call, which in
\* every route is getUserByWalletAddress.
StartRequest ==
    /\ BagCardinality(reqs) < MaxReqs
    /\ storage = "MemStorage" => reqs = EmptyBag
    /\ \E route \in Routes, walletAddress \in Addresses, valid \in BOOLEAN :
        /\ route # "postTrips" => valid
        /\ route = "postTrips" => TripsClaimed < MaxTrips
        /\ reqs' = reqs (+) SetToBag({Request(route, walletAddress, valid)})
    /\ response' = NoResponse
    /\ UNCHANGED <<flow, users, trips, storage, now>>

\* The handler of req goes on to its next storage call.
Continue(req, pc, userId) ==
    /\ reqs' = (reqs (-) SetToBag({req}))
                  (+) SetToBag({[req EXCEPT !.pc = pc, !.user = userId]})
    /\ response' = NoResponse

\* The handler of req sends its response and ends.
Finish(req, status, body) ==
    /\ response' = Respond(req, status, body)
    /\ reqs' = reqs (-) SetToBag({req})

\* POST /api/trips after the user is resolved: insertTripSchema.parse throws
\* a ZodError (400), or storage.createTrip is called.
Validate(req, user) ==
    IF req.valid
    THEN Continue(req, "store", user.id)
    ELSE Finish(req, 400, <<>>)

\* Mutant: GET /api/trips creates the user it does not find.
Lookup_GetCreates(req) ==
    /\ req.pc = "lookup"
    /\ LET found == FindUser(users, req.walletAddress)
       IN  IF found = {}
           THEN IF req.route = "getTrips"
                THEN /\ users' = InsertUser(users, req.walletAddress)
                     /\ Finish(req, 200, <<>>)
                ELSE /\ users' = users
                     /\ Continue(req, "create", 0)
           ELSE /\ users' = users
                /\ CASE req.route = "auth" -> Finish(req, 200, First(found))
                     [] req.route = "getTrips" ->
                           Continue(req, "list", First(found).id)
                     [] req.route = "postTrips" ->
                           Validate(req, First(found))
    /\ UNCHANGED <<flow, trips, storage, now>>

\* getUserByWalletAddress resolves.
Lookup(req) ==
    /\ req.pc = "lookup"
    /\ LET found == FindUser(users, req.walletAddress)
       IN  IF found = {}
           THEN IF req.route = "getTrips"
                THEN Finish(req, 404, <<>>)
                ELSE Continue(req, "create", 0)
           ELSE CASE req.route = "auth" -> Finish(req, 200, First(found))
                  [] req.route = "getTrips" ->
                        Continue(req, "list", First(found).id)
                  [] req.route = "postTrips" -> Validate(req, First(found))
    /\ UNCHANGED <<flow, users, trips, storage, now>>

\* Mutant: POST /api/trips validates the trip data before it creates the user.
Create_ValidatesFirst(req) ==
    /\ req.pc = "create"
    /\ IF req.route = "postTrips" /\ ~req.valid
       THEN /\ users' = users
            /\ Finish(req, 400, <<>>)
       ELSE /\ users' = InsertUser(users, req.walletAddress)
            /\ LET user == InsertedUser(users, req.walletAddress)
               IN  IF req.route = "auth"
                   THEN Finish(req, 200, user)
                   ELSE Validate(req, user)
    /\ UNCHANGED <<flow, trips, storage, now>>

\* createUser resolves.
Create(req) ==
    /\ req.pc = "create"
    /\ users' = InsertUser(users, req.walletAddress)
    /\ LET user == InsertedUser(users, req.walletAddress)
       IN  IF req.route = "auth"
           THEN Finish(req, 200, user)
           ELSE Validate(req, user)
    /\ UNCHANGED <<flow, trips, storage, now>>

\* createTrip resolves: res.json(trip).
Store(req) ==
    /\ req.pc = "store"
    /\ trips' = createTrip(trips, req.user)
    /\ Finish(req, 200, trips'[Len(trips')])
    /\ UNCHANGED <<flow, users, storage, now>>

\* getTripsByUserId resolves: res.json(trips).
List(req) ==
    /\ req.pc = "list"
    /\ \E result \in ListTrips(trips, req.user) : Finish(req, 200, result)
    /\ UNCHANGED <<flow, users, trips, storage, now>>

\* The body of a POST request has no walletAddress.
MissingAddress == ""

\* if (!walletAddress) return res.status(400): the handler of a POST request
\* without wallet address ends before its first storage call.
RejectRequest ==
    /\ storage = "MemStorage" => reqs = EmptyBag
    /\ \E route \in {"auth", "postTrips"} :
          response' = Respond(Request(route, MissingAddress, TRUE), 400, <<>>)
    /\ UNCHANGED <<flow, users, trips, storage, reqs, now>>

\* The storage calls that reject when the database fails, by the place of
\* the handler; the methods of MemStorage work on Maps and do not reject.
FailingCalls == {"lookup", "fallback", "store", "list"}

\* Mutant: the rejection escapes the handler, which ends without an answer.
StorageFail_Uncaught(req) ==
    /\ storage = "DatabaseStorage"
    /\ req.pc \in FailingCalls
    /\ reqs' = reqs (-) SetToBag({req})
    /\ response' = NoResponse
    /\ UNCHANGED <<flow, users, trips, storage, now>>

\* A storage call of the handler rejects: the catch of the route answers 500.
StorageFail(req) ==
    /\ storage = "DatabaseStorage"
    /\ req.pc \in FailingCalls
    /\ Finish(req, 500, <<>>)
    /\ UNCHANGED <<flow, users, trips, storage, now>>

\* DatabaseStorage.createUser: the insert rejects and nothing is stored; the
\* catch of createUser calls getUserByWalletAddress.
CreateFail(req) ==
    /\ storage = "DatabaseStorage"
    /\ req.pc = "create"
    /\ Continue(req, "fallback", 0)
    /\ UNCHANGED <<flow, users, trips, storage, now>>

\* The lookup in the catch of createUser resolves: the existing user is
\* returned to the route, or the error is thrown again (500).
Fallback(req) ==
    /\ req.pc = "fallback"
    /\ LET found == getUserByWalletAddress(users, req.walletAddress)
       IN  IF found = {}
           THEN Finish(req, 500, <<>>)
           ELSE IF req.route = "auth"
                THEN Finish(req, 200, First(found))
                ELSE Validate(req, First(found))
    /\ UNCHANGED <<flow, users, trips, storage, now>>

NextServer ==
    \/ Tick
    \/ StartRequest
    \/ \E req \in BagToSet(reqs) : Lookup(req)
    \/ \E req \in BagToSet(reqs) : Create(req)
    \/ \E req \in BagToSet(reqs) : Store(req)
    \/ \E req \in BagToSet(reqs) : List(req)

SpecServer == InitServer /\ [][NextServer]_vars

\* ---------------------------------------------- failing collaborators
\* The client flow and the routes with every failure of a collaborator: the
\* Ledger calls and the trip request of the client flow fail as in Next (the
\* Redeem buttons, which call no collaborator, are left alone); the
\* database calls of the routes reject, and POST requests come without a
\* wallet address.  The client flow and the routes share the stored users
\* and trips only, which the client flow reaches through PostTripsOk and
\* PostTripsFail: either the client flow runs, on the exported
\* DatabaseStorage, or the routes handle the requests of other clients.

\* No request of another client has arrived.
NoTraffic == reqs = EmptyBag /\ response = NoResponse

\* Home is mounted and nothing was clicked (or a connect was given up).
ClientIdle ==
    /\ client = <<NoAccount, NoProvider, 0, FALSE, FALSE, FALSE>>
    /\ view = Snapshot(NoAccount, NoProvider, 0, FALSE, FALSE, FALSE)
    /\ conn = [pc |-> "idle", read |-> NoRead]
    /\ calls = [p \in CallIds |-> IdleCall]
    /\ returned = NoReturn

\* The client flow runs on the exported storage.
ClientTurn == NoTraffic /\ storage = "DatabaseStorage"

NextFaults ==
    \/ ClientTurn /\ Render
    \/ ClientTurn /\ ConnectWallet
    \/ ClientTurn /\ ConnectFail
    \/ ClientTurn /\ ConnectOk
    \/ ClientTurn /\ ConnectBalanceServed
    \/ ClientTurn /\ ConnectFetchOk
    \/ ClientTurn /\ ConnectFetchFail
    \/ ClientTurn /\ SubmitTrip
    \/ ClientTurn /\ \E p \in CallIds : MintSendFail(p)
    \/ ClientTurn /\ \E p \in CallIds : MintSendOk(p)
    \/ ClientTurn /\ \E p \in CallIds : TxMined(p)
    \/ ClientTurn /\ \E p \in CallIds : TxReverted(p)
    \/ ClientTurn /\ \E p \in CallIds : MintWaitOk(p)
    \/ ClientTurn /\ \E p \in CallIds : MintWaitFail(p)
    \/ ClientTurn /\ \E p \in CallIds : SubmitBalanceServed(p)
    \/ ClientTurn /\ \E p \in CallIds : SubmitFetchOk(p)
    \/ ClientTurn /\ \E p \in CallIds : SubmitFetchFail(p)
    \/ ClientTurn /\ \E p \in CallIds : PostTripsOk(p)
    \/ ClientTurn /\ \E p \in CallIds : PostTripsFail(p)
    \/ ClientIdle /\ StartRequest
    \/ ClientIdle /\ RejectRequest
    \/ ClientIdle /\ \E req \in BagToSet(reqs) : Lookup(req)
    \/ ClientIdle /\ \E req \in BagToSet(reqs) : Create(req)
    \/ ClientIdle /\ \E req \in BagToSet(reqs) : Store(req)
    \/ ClientIdle /\ \E req \in BagToSet(reqs) : List(req)
    \/ ClientIdle /\ \E req \in BagToSet(reqs) : StorageFail(req)
    \/ ClientIdle /\ \E req \in BagToSet(reqs) : CreateFail(req)
    \/ ClientIdle /\ \E req \in BagToSet(reqs) : Fallback(req)

SpecFaults == InitServer /\ [][NextFaults]_vars

\* ---------------------------------------------- properties
TripsOf(p) == {i \in DOMAIN trips : trips[i].call = p}

\* The call's mint is requested and not yet resolved.
MintPhase == {"send", "wait"}

\* The call is between setMinting(true) and its finally.
InFlight == {"send", "wait", "fetch"}

\* A submitTrip invocation returns without reaching the mint in this step.
ReturnsNow == returned' # returned

\* A submitTrip invocation reaches the mint in this step.
StartsNow == \E p \in CallIds : calls[p].pc = "idle" /\ calls'[p].pc # "idle"

\* C1: every Trip with tokensEarned > 0 comes from a submit whose mint was
\* executed by the Ledger and reported as successful before the Trip was
\* handed to persistence; a submit whose mint failed or never ran (a call that
\* returned early, or that is still minting) has no Trip and hands none over.
C1_TripOnlyAfterMint ==
    /\ [](/\ \A i \in DOMAIN trips :
                trips[i].tokensEarned > 0 =>
                    /\ calls[trips[i].call].mintOk
                    /\ txs[trips[i].call] = "mined"
          /\ \A p \in CallIds :
                ~calls[p].mintOk =>
                    TripsOf(p) = {} /\ calls[p].persist = "none")
    /\ [][ReturnsNow => trips' = trips /\ calls' = calls]_vars

C1_Witness ==
    \E p, q \in CallIds :
        /\ TripsOf(p) # {}
        /\ calls[p].mintOk
        /\ calls[q].pc = "done"
        /\ calls[q].outcome = "MintFailed"
        /\ TripsOf(q) = {}

\* C2: a step of a submit changes the cached balance only by writing the value
\* of a balanceOf read that was issued after the mint reported success, and
\* the step in which trip persistence succeeds leaves the balance as it was.
C2_BalanceOnlyFromReread ==
    [][\A p \in CallIds :
          /\ (calls'[p] # calls[p] /\ balance' # balance) =>
                /\ calls[p].pc = "fetch"
                /\ calls[p].mintOk
                /\ calls[p].read.status = "served"
                /\ balance' = FetchedBalance(calls[p].read.value)
          /\ (calls[p].persist = "pending" /\ calls'[p].persist = "success") =>
                balance' = balance
          /\ ReturnsNow => balance' = balance]_vars

C2_Witness ==
    \E p \in CallIds :
        /\ calls[p].persist = "success"
        /\ calls[p].tokensEarned > 0
        /\ balance = calls[p].tokensEarned
        /\ ledger.whole = balance

\* C3: a submit with tokens > 0 whose mint fails ends with MintFailed, has no
\* Trip persisted, performs no balance re-read, and none of its steps changes
\* the cached balance.
C3_MintFailed ==
    /\ [](\A p \in CallIds :
            (calls[p].pc = "done" /\ ~calls[p].mintOk) =>
                /\ calls[p].tokensEarned > 0
                /\ calls[p].outcome = "MintFailed"
                /\ calls[p].persist = "none"
                /\ calls[p].read = NoRead
                /\ TripsOf(p) = {})
    /\ [][\A p \in CallIds :
            (calls'[p] # calls[p] /\ ~calls'[p].mintOk) =>
                balance' = balance]_vars

C3_Witness ==
    \E p \in CallIds :
        /\ calls[p].pc = "done"
        /\ calls[p].outcome = "MintFailed"
        /\ txs[p] = "reverted"
        /\ balance > 0

\* C4: at most one submit is in its mint phase at any time, and a submitTrip
\* invocation made while one is in its mint phase returns AlreadyInProgress
\* and starts no mint.
C4_OneMintAtATime ==
    /\ [](\A p, q \in CallIds :
            (calls[p].pc \in MintPhase /\ calls[q].pc \in MintPhase) => p = q)
    /\ [][((\E q \in CallIds : calls[q].pc \in MintPhase)
              /\ (ReturnsNow \/ StartsNow)) =>
            /\ returned'.outcome = "AlreadyInProgress"
            /\ calls' = calls
            /\ txs' = txs
            /\ minting' = minting]_vars

C4_Witness ==
    /\ returned.outcome = "AlreadyInProgress"
    /\ returned.distance > 0
    /\ \E q \in CallIds : calls[q].pc = "wait" /\ txs[q] = "pending"
    /\ \A p \in CallIds : calls[p].pc \in MintPhase \/ calls[p].pc = "idle"

RedeemsNow == lastRedeem' # lastRedeem

\* C6: the cached balance is never negative, and a step that is not the
\* delivery of a balance read lowers it only as a redeem whose cost the
\* balance covered at that instant, by exactly that cost.
C6_DebitOnlyWhenCovered ==
    /\ [](balance >= 0)
    /\ [][(balance' < balance /\ calls' = calls /\ conn' = conn) =>
            /\ lastRedeem'.before = balance
            /\ lastRedeem'.after = balance'
            /\ balance >= lastRedeem'.cost
            /\ balance' = balance - lastRedeem'.cost]_vars
    /\ [][RedeemsNow =>
            /\ lastRedeem'.before = balance
            /\ lastRedeem'.after = balance'
            /\ balance' \in {balance, balance - lastRedeem'.cost}
            /\ balance' >= 0]_vars

C6_Witness ==
    /\ lastRedeem.outcome # "none"
    /\ lastRedeem.before >= lastRedeem.cost
    /\ lastRedeem.after = lastRedeem.before - lastRedeem.cost
    /\ balance = lastRedeem.after
    /\ \E p \in CallIds : calls[p].pc = "done" /\ calls[p].mintOk

\* C7: of two redeems of one reward made one after the other on a cached
\* balance equal to the reward's cost, exactly one succeeds, the other fails
\* with InsufficientBalance or RedemptionInProgress, and the balance ends 0.
C7_ExactlyOneSucceeds ==
    [][(/\ RedeemsNow
        /\ lastRedeem.outcome # "none"
        /\ lastRedeem.before = lastRedeem.cost
        /\ lastRedeem'.cost = lastRedeem.cost
        /\ lastRedeem'.before = lastRedeem.after) =>
            /\ balance' = 0
            /\ \/ /\ lastRedeem.outcome = "Success"
                  /\ lastRedeem'.outcome \in
                        {"InsufficientBalance", "RedemptionInProgress"}
               \/ /\ lastRedeem'.outcome = "Success"
                  /\ lastRedeem.outcome \in
                        {"InsufficientBalance", "RedemptionInProgress"}]_vars

\* C8: a redeem reports success (and shows the coupon) if and only if it
\* lowered the cached balance by exactly the reward's cost.
C8_CouponIffDebit ==
    lastRedeem.outcome # "none" =>
        (lastRedeem.outcome = "Success"
            <=> lastRedeem.after = lastRedeem.before - lastRedeem.cost)

\* No handler ever runs with redeeming = true.
RedeemingNeverSeen == ~view.redeeming /\ ~redeeming

\* C10: a redeem made when the cached balance is below the reward's cost fails
\* with InsufficientBalance and leaves the balance unchanged.
C10_InsufficientBalance ==
    (lastRedeem.outcome # "none" /\ lastRedeem.before < lastRedeem.cost) =>
        /\ lastRedeem.outcome = "InsufficientBalance"
        /\ lastRedeem.after = lastRedeem.before

\* C11: a submitTrip call by a connected account with distance > 0 whose
\* reward is 0 tokens, made while no submit is in flight, succeeds (and its
\* Trip is handed to persistence): it does not return with an error.
C11_ZeroTokenTripSucceeds ==
    [][(/\ ReturnsNow
        /\ view.account # NoAccount
        /\ ~view.minting
        /\ returned'.distance > 0
        /\ calculateTokens(returned'.mode, returned'.distance) = 0) =>
            returned'.outcome = "Success"]_vars

\* C12: when the persistence of a minted trip fails (the request completes
\* and no Trip of the call is stored), the submit is reported as
\* PersistFailed, which is neither the success report nor MintFailed; the
\* Ledger balance and the re-read cached balance stay as they are, and the
\* call is never resumed afterwards: no retry, no second mint.
C12_PersistFailed ==
    /\ [](\A p \in CallIds :
            calls[p].persist = "error" =>
                /\ calls[p].mintOk
                /\ txs[p] = "mined"
                /\ calls[p].pc = "done"
                /\ TripsOf(p) = {}
                /\ Reported(calls[p]) = "PersistFailed")
    /\ [][\A p \in CallIds :
            (/\ calls[p].persist = "pending"
             /\ calls'[p].persist # "pending"
             /\ TripsOf(p)' = {}) =>
                /\ Reported(calls'[p]) = "PersistFailed"
                /\ ledger' = ledger
                /\ balance' = balance
                /\ txs' = txs
                /\ calls'[p].pc = calls[p].pc]_vars
    /\ [][\A p \in CallIds :
            calls[p].persist = "error" =>
                calls'[p] = calls[p] /\ txs'[p] = txs[p]]_vars

C12_Witness ==
    \E p \in CallIds :
        /\ calls[p].persist = "error"
        /\ Reported(calls[p]) = "PersistFailed"
        /\ calls[p].mintOk
        /\ ledger.whole = calls[p].tokensEarned
        /\ balance = calls[p].tokensEarned
        /\ trips = <<>>

PolicyRateTenths(mode) ==
    CASE mode = "Walking" -> 10
      [] mode = "Cycling" -> 5
      [] mode = "Public Transport" -> 2

\* t = floor(r * d / 10)
IsFloorOfTenths(t, r, d) == t \in Nat /\ 10 * t <= r * d /\ r * d < 10 * (t + 1)

\* The reward computed for mode m and distance d is t.
RewardIs(c, m, d, t) == (c.mode = m /\ c.distance = d) => c.tokensEarned = t

\* C14: for every mode of the rate table and every distance d > 0 the
\* computed reward is floor(rate(mode) * d), a non-negative integer; Walking/10
\* gives 10, Cycling/10 gives 5, Public Transport/10 gives 2, Cycling/3 gives
\* 1 and Public Transport/1 gives 0.
C14_RewardIsFloor ==
    \A p \in CallIds :
        (calls[p].pc # "idle" /\ calls[p].mode \in Modes
            /\ calls[p].distance > 0) =>
            /\ IsFloorOfTenths(calls[p].tokensEarned,
                               PolicyRateTenths(calls[p].mode),
                               calls[p].distance)
            /\ RewardIs(calls[p], "Walking", 10, 10)
            /\ RewardIs(calls[p], "Cycling", 10, 5)
            /\ RewardIs(calls[p], "Public Transport", 10, 2)
            /\ RewardIs(calls[p], "Cycling", 3, 1)
            /\ RewardIs(calls[p], "Public Transport", 1, 0)

C14_Witness ==
    /\ calls[1].pc # "idle"
    /\ calls[1].mode = "Cycling"
    /\ calls[1].distance = 3
    /\ calls[1].tokensEarned = 1

\* C15: a submitTrip call with a mode that is not in the rate table, made by
\* a connected account with a valid distance while no submit is in flight,
\* ends with the error UnknownMode, invokes no mint and persists no Trip.
C15_UnknownMode ==
    [][(/\ ReturnsNow
        /\ view.account # NoAccount
        /\ ~view.minting
        /\ returned'.distance > 0
        /\ returned'.mode \notin Modes) =>
            /\ returned'.outcome = "UnknownMode"
            /\ calls' = calls
            /\ txs' = txs
            /\ trips' = trips]_vars

\* The Account a Trip is keyed to.
OwnerOf(trip) == CHOOSE u \in users : u.id = trip.userId

\* C16: every persisted Trip has tokensEarned equal to the reward of its own
\* mode and distance; the reward of a submit is fixed before its mint is sent
\* and never changes afterwards; the amount given to the Ledger mint of the
\* trip's submit is that reward (in base units), minted to the address of the
\* Account the Trip is keyed to.
C16_TripRewardIsMinted ==
    /\ [](\A i \in DOMAIN trips :
            LET c == calls[trips[i].call]
            IN  /\ trips[i].tokensEarned =
                      calculateTokens(trips[i].mode, trips[i].distance)
                /\ c.tokensEarned = trips[i].tokensEarned
                /\ c.mint.amount = parseUnits(trips[i].tokensEarned)
                /\ \E u \in users : u.id = trips[i].userId
                /\ OwnerOf(trips[i]).walletAddress = toLowerCase(c.mint.to))
    /\ [][\A p \in CallIds :
            calls[p].pc # "idle" =>
                /\ calls'[p].tokensEarned = calls[p].tokensEarned
                /\ calls'[p].mode = calls[p].mode
                /\ calls'[p].distance = calls[p].distance
                /\ calls[p].tokensEarned =
                      calculateTokens(calls[p].mode, calls[p].distance)]_vars

C16_Witness ==
    \E i \in DOMAIN trips :
        /\ trips[i].tokensEarned = RewardCost1
        /\ calls[trips[i].call].mint = MintArgs(WalletAddress, RewardCost1)
        /\ txs[trips[i].call] = "mined"
        /\ ledger.whole >= RewardCost1

\* Two wallet addresses are the same address (compared without letter case).
SameAddress(a, b) == toLowerCase(a) = toLowerCase(b)

\* C17: after any requests to POST /api/auth/wallet and POST /api/trips there
\* is at most one Account per wallet address compared case-insensitively,
\* and a request that resolves an address, in whatever letter case, gets the
\* stored Account of that address (hence always the same one).
C17_OneAccountPerAddress ==
    /\ \A u, v \in users :
            SameAddress(u.walletAddress, v.walletAddress) => u = v
    /\ (response.route = "auth" /\ response.status = 200) =>
            /\ response.body \in users
            /\ SameAddress(response.body.walletAddress,
                           response.walletAddress)
    /\ (response.route = "postTrips" /\ response.status = 200) =>
            \E u \in users :
                /\ u.id = response.body.userId
                /\ SameAddress(u.walletAddress, response.walletAddress)

C17_Witness ==
    /\ response.route = "auth"
    /\ response.status = 200
    /\ response.body.walletAddress # response.walletAddress
    /\ Cardinality(users) = 2
    /\ \E i \in DOMAIN trips : trips[i].userId = response.body.id

\* C18: every Account in storage has its wallet address in lower case.
C18_StoredLowerCase ==
    \A u \in users : u.walletAddress = toLowerCase(u.walletAddress)

\* The elements of a sequence.
Range(seq) == {seq[i] : i \in DOMAIN seq}

\* C19: the list GET /api/trips/:walletAddress returns holds exactly the
\* Trips owned by the Account of the address, each once and none of another
\* account, ordered by creation time (createdAt), the most recent first.
C19_ListByAccount ==
    (response.route = "getTrips" /\ response.status = 200) =>
        \E u \in users :
            /\ SameAddress(u.walletAddress, response.walletAddress)
            /\ Range(response.body) =
                  {t \in Range(trips) : t.userId = u.id}
            /\ Len(response.body) = Cardinality(Range(response.body))
            /\ \A i, j \in DOMAIN response.body :
                  i < j => response.body[i].createdAt
                              >= response.body[j].createdAt

C19_Witness ==
    /\ response.route = "getTrips"
    /\ response.status = 200
    /\ Len(response.body) = 2
    /\ response.body[1].createdAt > response.body[2].createdAt
    /\ \E t \in Range(trips) : t.userId # response.body[1].userId

\* C20: a redeem, successful or not, makes no Ledger operation (no mint is
\* sent, no balance read is issued or delivered), leaves the Ledger balance
\* and the stored users and trips unchanged, and of the client state changes
\* at most the cached balance (and the render that shows it).
C20_RedeemIsLocal ==
    [][RedeemsNow =>
        /\ ledger' = ledger
        /\ txs' = txs
        /\ calls' = calls
        /\ conn' = conn
        /\ trips' = trips
        /\ users' = users
        /\ account' = account
        /\ provider' = provider
        /\ minting' = minting
        /\ loading' = loading
        /\ redeeming' = redeeming]_vars

C20_Witness ==
    /\ lastRedeem.outcome = "Success"
    /\ lastRedeem.after < lastRedeem.before
    /\ balance = lastRedeem.after
    /\ ledger.whole = lastRedeem.before
    /\ trips # <<>>

\* The order of the steps of one submit: the reward is computed when the call
\* starts, then the mint is sent, then awaited, then the balance is re-read,
\* then the trip is handed to persistence.
StepOrder ==
    {<<"idle", "send">>, <<"send", "wait">>, <<"wait", "fetch">>,
     <<"fetch", "done">>, <<"send", "done">>, <<"wait", "done">>}

\* C21: within one submit with tokens > 0 the steps occur in strict order:
\* reward computation, Ledger mint, Ledger balance re-read, Trip persistence;
\* the reward is fixed when the mint is sent, the balance re-read is issued in
\* the step in which the mint is confirmed and not before, and the trip is
\* handed to persistence in the step that ends the re-read and not before.
C21_StrictOrder ==
    /\ [](\A p \in CallIds :
            /\ calls[p].pc # "idle" =>
                  /\ calls[p].tokensEarned > 0
                  /\ calls[p].tokensEarned =
                        calculateTokens(calls[p].mode, calls[p].distance)
            /\ calls[p].mint # NoMint =>
                  /\ calls[p].pc \notin {"idle", "send"}
                  /\ calls[p].mint.amount = parseUnits(calls[p].tokensEarned)
            /\ calls[p].read # NoRead =>
                  /\ calls[p].pc = "fetch"
                  /\ calls[p].mintOk
                  /\ txs[p] = "mined"
            /\ calls[p].persist # "none" =>
                  /\ calls[p].pc = "done"
                  /\ calls[p].mintOk
                  /\ calls[p].read = NoRead)
    /\ [][\A p \in CallIds :
            /\ calls'[p].pc # calls[p].pc =>
                  <<calls[p].pc, calls'[p].pc>> \in StepOrder
            /\ (calls[p].read = NoRead /\ calls'[p].read # NoRead) =>
                  /\ calls[p].pc = "wait"
                  /\ ~calls[p].mintOk
                  /\ calls'[p].mintOk
            /\ (calls[p].persist = "none" /\ calls'[p].persist # "none") =>
                  /\ calls[p].pc = "fetch"
                  /\ calls'[p].read = NoRead]_vars

C21_Witness ==
    \E p \in CallIds :
        /\ calls[p].pc = "done"
        /\ calls[p].persist = "pending"
        /\ calls[p].tokensEarned > 0
        /\ calls[p].mint.amount = parseUnits(calls[p].tokensEarned)
        /\ txs[p] = "mined"
        /\ balance = ledger.whole
        /\ balance >= calls[p].tokensEarned

\* The status codes of the responses.
Statuses == {200, 400, 404, 500}

\* The handler of req can take a step.
CanStep(req) ==
    ENABLED (Lookup(req) \/ Create(req) \/ Store(req) \/ List(req)
                \/ Fallback(req))

\* The submit p can take a step.
CanGoOn(p) ==
    ENABLED (MintSendOk(p) \/ MintSendFail(p) \/ MintWaitOk(p)
                \/ MintWaitFail(p) \/ SubmitFetchOk(p) \/ SubmitFetchFail(p))

\* The number of requests whose handlers end in this step.
Ended == BagCardinality(reqs) - BagCardinality(reqs')

\* C22: every failure of a collaborator ends the operation in a reported
\* error outcome.  Routes: a handler that ends sends one response, with
\* status 200, 400, 404 or 500, a response is sent only by a handler that
\* ends with it, no handler is ever unable to go on, invalid trip data and a
\* missing wallet address are answered 400, a failed storage call 500.
\* Client: a submit that passed setMinting(true) can always go on, and ends
\* with the in-flight flag cleared and an outcome shown: MintFailed when the
\* mint failed, success when only the balance read failed, PersistFailed when
\* the trip request failed; a call that returns at once names its reason.
C22_FailuresAreReported ==
    /\ [](/\ response # NoResponse => response.status \in Statuses
          /\ \A req \in BagToSet(reqs) : CanStep(req)
          /\ \A p \in CallIds :
                /\ calls[p].pc \in InFlight => CanGoOn(p)
                /\ calls[p].pc = "done" =>
                      calls[p].outcome \in {"MintFailed", "Success"})
    /\ [][/\ Ended \in {-1, 0, 1}
          /\ response' # NoResponse =>
                \/ Ended = 1
                \/ /\ Ended = 0
                   /\ response'.walletAddress = MissingAddress
                   /\ response'.status = 400
                   /\ users' = users /\ trips' = trips
          /\ Ended = 1 =>
                \E req \in BagToSet(reqs) :
                    /\ reqs' = reqs (-) SetToBag({req})
                    /\ response' = Respond(req, response'.status,
                                           response'.body)
                    /\ response'.status \in Statuses
                    /\ ~req.valid =>
                          /\ response'.status \in {400, 500}
                          /\ trips' = trips
                    /\ (req.pc = "store" /\ trips' = trips) =>
                          response'.status = 500
                    /\ (req.pc = "fallback"
                        /\ getUserByWalletAddress(users, req.walletAddress)
                              = {}) =>
                          response'.status = 500]_vars
    /\ [][/\ \A p \in CallIds :
                /\ (calls[p].pc \in InFlight /\ calls'[p].pc = "done") =>
                      /\ ~minting'
                      /\ calls[p].pc \in MintPhase =>
                            /\ calls'[p].outcome = "MintFailed"
                            /\ Reported(calls'[p]) = "MintFailed"
                      /\ calls[p].pc = "fetch" =>
                            /\ calls'[p].outcome = "Success"
                            /\ calls'[p].persist = "pending"
                /\ (calls[p].persist = "pending"
                    /\ calls'[p].persist # "pending") =>
                      /\ calls'[p].persist \in {"success", "error"}
                      /\ TripsOf(p)' = {} =>
                            Reported(calls'[p]) = "PersistFailed"
          /\ ReturnsNow =>
                /\ returned'.outcome \in
                      {"AlreadyInProgress", "InvalidInput", "NotConnected",
                       "Error"}
                /\ returned'.outcome = "Error" => ~minting']_vars

C22_Witness ==
    /\ ~minting
    /\ \E p, q \in CallIds :
          /\ calls[p].pc = "done"
          /\ Reported(calls[p]) = "MintFailed"
          /\ txs[p] = "reverted"
          /\ calls[q].pc = "done"
          /\ Reported(calls[q]) = "PersistFailed"
          /\ users = {}

\* The Accounts in us with the given id.
Owners(us, userId) == {u \in us : u.id = userId}

\* C23: TripStore is append-only: a step stores at most one more Trip, behind
\* the stored ones, and changes or removes none of them (nor any Account);
\* the owner id of a Trip is the id of exactly one stored Account, when the
\* Trip is created and in every later state.
C23_AppendOnly ==
    /\ [](\A i \in DOMAIN trips :
            Cardinality(Owners(users, trips[i].userId)) = 1)
    /\ [][/\ Len(trips') \in {Len(trips), Len(trips) + 1}
          /\ \A i \in DOMAIN trips : trips'[i] = trips[i]
          /\ users \subseteq users'
          /\ Len(trips') = Len(trips) + 1 =>
                /\ Cardinality(Owners(users,
                                      trips'[Len(trips')].userId)) = 1
                /\ \A i \in DOMAIN trips :
                      trips'[Len(trips')].id # trips[i].id]_vars

C23_Witness ==
    /\ Len(trips) = MaxTrips
    /\ Cardinality(users) = 2
    /\ \E i, j \in DOMAIN trips : trips[i].userId # trips[j].userId
    /\ reqs # EmptyBag

\* C24: whenever a submit has ended with MintFailed, no mint of that submit
\* has taken effect on the Ledger: the Ledger has not executed a transaction
\* of the call, so the Ledger balance owes nothing to it (and a retry of the
\* trip cannot add a second mint).
C24_MintFailedNoMint ==
    \A p \in CallIds : calls[p].outcome = "MintFailed" => txs[p] # "mined"

\* The stored Accounts of a wallet address.
AccountsOf(us, walletAddress) ==
    {u \in us : SameAddress(u.walletAddress, walletAddress)}

\* The handler of req takes a step.
Handles(req) == CopiesIn(req, reqs') < CopiesIn(req, reqs)

\* C25: when the create of a find-or-create request resolves, whatever other
\* requests for the address looked it up or created it in between, storage
\* holds exactly one Account of the address and the request resolves to it:
\* POST /api/auth/wallet answers with that Account, POST /api/trips goes on
\* with its id.  In particular two requests that both found no Account for
\* one address leave one Account, and both resolve to it.
C25_ConcurrentFindOrCreate ==
    /\ [](\A req \in BagToSet(reqs) :
            req.pc = "store" =>
                \E u \in AccountsOf(users, req.walletAddress) :
                    /\ u.id = req.user
                    /\ AccountsOf(users, req.walletAddress) = {u})
    /\ [][\A req \in BagToSet(reqs) :
            (req.pc = "create" /\ Handles(req)) =>
                /\ Cardinality(AccountsOf(users', req.walletAddress)) = 1
                /\ req.route = "auth" =>
                      /\ response'.status = 200
                      /\ AccountsOf(users', req.walletAddress)
                            = {response'.body}
                /\ (req.route = "postTrips" /\ req.valid) =>
                      \E u \in AccountsOf(users', req.walletAddress) :
                          CopiesIn([req EXCEPT !.pc = "store",
                                               !.user = u.id], reqs') > 0]_vars

\* The first of two requests that found no Account has created it and got it;
\* the second is about to create.
C25_Witness ==
    /\ response.route = "auth"
    /\ response.status = 200
    /\ response.body \in users
    /\ \E req \in BagToSet(reqs) :
          /\ req.pc = "create"
          /\ req.walletAddress # response.walletAddress
          /\ AccountsOf(users, req.walletAddress) = {response.body}

\* The balance re-read of submit p is delivered to the cached balance now.
RereadNow(p) ==
    /\ calls[p].pc = "fetch"
    /\ calls'[p].pc = "done"
    /\ calls[p].read.status = "served"
    /\ balance' # balance

\* C26: a successful balance re-read after a mint sets the cached balance to
\* the whole tokens of the Ledger balance that was read, whatever was
\* redeemed before: the earlier debits are neither subtracted from it nor
\* undone in the record of redemptions.  The cached balance never exceeds
\* the Ledger balance, but the sum of the debits of the redemptions is not
\* bounded by it (the state of C26_Witness).
C26_RereadDiscardsDebits ==
    /\ [](balance <= ledger.whole)
    /\ [][\A p \in CallIds :
            RereadNow(p) =>
                /\ calls[p].mintOk
                /\ balance' = calls[p].read.value.whole
                /\ lastRedeem' = lastRedeem]_vars

\* The redemptions have debited more than the Ledger balance of the account.
C26_Witness ==
    /\ lastRedeem.total > ledger.whole
    /\ lastRedeem.outcome = "Success"
    /\ \A p \in CallIds : calls[p].pc = "done" /\ calls[p].mintOk
    /\ ledger.whole = MaxCalls * RewardCost1

C28_InvalidTripKeepsAccount ==
    /\ [](\A req \in BagToSet(reqs) : req.pc = "store" => req.valid)
    /\ [][/\ users \subseteq users'
          /\ \A req \in BagToSet(reqs) :
                (req.route = "postTrips" /\ ~req.valid /\ Handles(req)) =>
                    /\ trips' = trips
                    /\ Cardinality(AccountsOf(users', req.walletAddress))
                          = IF req.pc = "lookup"
                            THEN Cardinality(AccountsOf(users,
                                                        req.walletAddress))
                            ELSE 1
                    /\ IF req.pc = "lookup"
                          /\ AccountsOf(users, req.walletAddress) = {}
                       THEN /\ response' = NoResponse
                            /\ CopiesIn([req EXCEPT !.pc = "create"],
                                        reqs') > 0
                       ELSE /\ response' = Respond(req, 400, <<>>)
                            /\ Ended = 1]_vars

\* The request has created the only Account there is and was answered 400.
C28_Witness ==
    /\ response.route = "postTrips"
    /\ response.status = 400
    /\ response.walletAddress = "0xDeF"
    /\ users = {[id |-> 1, walletAddress |-> "0xdef"]}
    /\ trips = <<>>
    /\ reqs = EmptyBag

\* C29: in every state, and in every render a handler was created in, a
\* connected account comes with a stored Ledger provider, and neither is
\* ever cleared; so a submit by a connected account ends in the error branch
\* "no provider available or no tokens to mint" only when its computed
\* reward is not greater than 0.
C29_AccountHasProvider ==
    /\ [](/\ account # NoAccount => provider # NoProvider
          /\ view.account # NoAccount => view.provider # NoProvider)
    /\ [][/\ account # NoAccount => account' = account
          /\ provider # NoProvider => provider' = provider
          /\ (ReturnsNow /\ returned'.outcome = "Error") =>
                /\ view.account # NoAccount
                /\ view.provider # NoProvider
                /\ ~(calculateTokens(returned'.mode, returned'.distance)
                        > 0)]_vars

C29_Witness ==
    /\ returned.outcome = "Error"
    /\ returned.mode = "Public Transport"
    /\ returned.distance > 0
    /\ account = WalletAddress
    /\ provider = BrowserProvider
    /\ ~minting

\* C30: GET /api/trips/:walletAddress for an address without Account is
\* answered 404, and no step of a GET request changes the stored users or
\* trips; a step that adds an Account is the create of a POST
\* /api/auth/wallet or POST /api/trips request.
C30_GetCreatesNothing ==
    /\ []((response.route = "getTrips" /\ response.status = 404) =>
            AccountsOf(users, response.walletAddress) = {})
    /\ [][/\ \A req \in BagToSet(reqs) :
                (req.route = "getTrips" /\ Handles(req)) =>
                    /\ users' = users
                    /\ trips' = trips
                    /\ (req.pc = "lookup"
                        /\ AccountsOf(users, req.walletAddress) = {}) =>
                          /\ response' = Respond(req, 404, <<>>)
                          /\ Ended = 1
          /\ users' # users =>
                \E req \in BagToSet(reqs) :
                    /\ req.route \in {"auth", "postTrips"}
                    /\ req.pc = "create"
                    /\ Handles(req)]_vars

\* An address without Account is asked for while other Accounts have trips.
C30_Witness ==
    /\ response.route = "getTrips"
    /\ response.status = 404
    /\ AccountsOf(users, response.walletAddress) = {}
    /\ users # {}
    /\ trips # <<>>

====
